---- MODULE Spec2Model ----
(***************************************************************************)
(* Model of media_management/tv_show_renamer.py: rename_show_files walks a *)
(* directory tree, extracts a season/episode identity from each file name  *)
(* with an ordered list of five regular expressions and renames the file   *)
(* in place to "{show_name} {season_episode}{extension}".                  *)
(*                                                                         *)
(* File names are sequences of one-character strings; the regular          *)
(* expressions are evaluated character by character with Python's          *)
(* leftmost, greedy, backtracking semantics.                               *)
(***************************************************************************)
EXTENDS Integers, Sequences, FiniteSets, TLC

-----------------------------------------------------------------------------
(* Characters and character classes                                        *)

LowerCase == <<"a","b","c","d","e","f","g","h","i","j","k","l","m",
               "n","o","p","q","r","s","t","u","v","w","x","y","z">>

UpperCase == <<"A","B","C","D","E","F","G","H","I","J","K","L","M",
               "N","O","P","Q","R","S","T","U","V","W","X","Y","Z">>

DigitChars == <<"0","1","2","3","4","5","6","7","8","9">>

\* str.upper() on one character
UpperChar(c) ==
    IF \E i \in 1..26 : LowerCase[i] = c
    THEN UpperCase[CHOOSE i \in 1..26 : LowerCase[i] = c]
    ELSE c

\* str.upper()
Upper(s) == [i \in 1..Len(s) |-> UpperChar(s[i])]

\* \d
IsDigit(c) == \E i \in 1..10 : DigitChars[i] = c

\* \s
IsSpace(c) == c = " "

\* [-_]
IsSep(c) == c \in {"-", "_"}

\* a literal letter under re.IGNORECASE
IsLit(c, lit) == UpperChar(c) = UpperChar(lit)

\* s[i] is inside the string and satisfies the class
DigitAt(s, i) == i \in 1..Len(s) /\ IsDigit(s[i])
SepAt(s, i) == i \in 1..Len(s) /\ IsSep(s[i])
SpaceAt(s, i) == i \in 1..Len(s) /\ IsSpace(s[i])
LitAt(s, i, lit) == i \in 1..Len(s) /\ IsLit(s[i], lit)

\* the literal word w (case-insensitive) occupies s[i .. i+Len(w)-1]
WordAt(s, i, w) == \A j \in 1..Len(w) : LitAt(s, i + j - 1, w[j])

\* \s* is greedy: the first position at or after i that holds no whitespace
SkipSpaces(s, i) ==
    IF i > Len(s) THEN i
    ELSE CHOOSE j \in i..(Len(s) + 1) :
             /\ \A k \in i..(j - 1) : IsSpace(s[k])
             /\ ~SpaceAt(s, j)

\* \d{1,2} is greedy: the number of digits taken at i (0: none there)
DigitRun(s, i) ==
    IF DigitAt(s, i) THEN (IF DigitAt(s, i + 1) THEN 2 ELSE 1) ELSE 0

\* s[a .. b-1]
Slice(s, a, b) == SubSeq(s, a, b - 1)

\* int() of a string of decimal digits
DigitVal(c) == (CHOOSE i \in 1..10 : DigitChars[i] = c) - 1

RECURSIVE ToInt(_)
ToInt(s) ==
    IF s = <<>> THEN 0
    ELSE 10 * ToInt(SubSeq(s, 1, Len(s) - 1)) + DigitVal(s[Len(s)])

\* str(n) for n >= 0
RECURSIVE ToStr(_)
ToStr(n) ==
    IF n < 10 THEN <<DigitChars[n + 1]>>
    ELSE ToStr(n \div 10) \o <<DigitChars[(n % 10) + 1]>>

\* f"{n:02d}" for n >= 0
Format02d(n) == IF n < 10 THEN <<"0">> \o ToStr(n) ELSE ToStr(n)

-----------------------------------------------------------------------------
(* The five patterns.  A match is a record: ok, start and end (end is the  *)
(* position after the last matched character), groups the captured         *)
(* substrings.  PatternNAt is an anchored match attempt at position i.     *)

NoMatch == [ok |-> FALSE, start |-> 0, end |-> 0, groups |-> <<>>]

Matched(a, b, gs) == [ok |-> TRUE, start |-> a, end |-> b, groups |-> gs]

\* (S\d{1,2}E\d{1,2})
Pattern1At(s, i) ==
    LET k == DigitRun(s, i + 1)
        \* the season takes k digits when an E follows them; with two digits
        \* available and no E after them it gives one back
        ks == {n \in 1..k : LitAt(s, i + 1 + n, "E") /\ DigitAt(s, i + 2 + n)}
    IN  IF LitAt(s, i, "S") /\ ks # {}
        THEN LET n == CHOOSE x \in ks : \A y \in ks : y <= x
                 m == DigitRun(s, i + 2 + n)
             IN  Matched(i, i + 2 + n + m, <<Slice(s, i, i + 2 + n + m)>>)
        ELSE NoMatch

\* \s*(\d{1,2})\s*[-_] anchored at position p: the number followed by a
\* separator; the number gives a digit back when that is what it takes
NumberThenSep(s, p) ==
    LET q == SkipSpaces(s, p)
        k == DigitRun(s, q)
    IN  {n \in 1..k : SepAt(s, SkipSpaces(s, q + n))}

\* \(\d{4}\)\s*[-_]\s*(\d{1,2})\s*[-_]
Pattern2At(s, i) ==
    LET p == SkipSpaces(s, i + 6)
        q == SkipSpaces(s, p + 1)
        ns == NumberThenSep(s, p + 1)
    IN  IF /\ i \in 1..Len(s) /\ s[i] = "("
           /\ \A j \in 1..4 : DigitAt(s, i + j)
           /\ i + 5 \in 1..Len(s) /\ s[i + 5] = ")"
           /\ SepAt(s, p)
           /\ ns # {}
        THEN LET n == CHOOSE x \in ns : \A y \in ns : y <= x
             IN  Matched(i, SkipSpaces(s, q + n) + 1, <<Slice(s, q, q + n)>>)
        ELSE NoMatch

\* S(\d{1,2})\s*[-_ ]\s*(\d{1,2})
Pattern3At(s, i) ==
    LET k == DigitRun(s, i + 1)
        \* position of the episode number after a season of n digits, 0 if
        \* the joiner does not match: \s* takes all the whitespace and a
        \* dash or underscore follows, or it gives the last blank back to
        \* the class [-_ ] and the number follows at once
        Episode(n) ==
            LET p == SkipSpaces(s, i + 1 + n)
            IN  IF SepAt(s, p)
                THEN (IF DigitAt(s, SkipSpaces(s, p + 1))
                      THEN SkipSpaces(s, p + 1) ELSE 0)
                ELSE (IF p > i + 1 + n /\ DigitAt(s, p) THEN p ELSE 0)
        ks == {n \in 1..k : Episode(n) # 0}
    IN  IF LitAt(s, i, "S") /\ ks # {}
        THEN LET n == CHOOSE x \in ks : \A y \in ks : y <= x
                 q == Episode(n)
                 m == DigitRun(s, q)
             IN  Matched(i, q + m,
                         <<Slice(s, i + 1, i + 1 + n), Slice(s, q, q + m)>>)
        ELSE NoMatch

\* [-_]\s*(\d{1,2})\s*[-_]
Pattern4At(s, i) ==
    LET q == SkipSpaces(s, i + 1)
        ns == NumberThenSep(s, i + 1)
    IN  IF SepAt(s, i) /\ ns # {}
        THEN LET n == CHOOSE x \in ns : \A y \in ns : y <= x
             IN  Matched(i, SkipSpaces(s, q + n) + 1, <<Slice(s, q, q + n)>>)
        ELSE NoMatch

\* the alternatives of (?:E|Ep|Episode), tried in this order
EpisodeWords == << <<"E">>, <<"E","p">>, <<"E","p","i","s","o","d","e">> >>

\* (?:E|Ep|Episode)\s*(\d{1,2})
Pattern5At(s, i) ==
    LET Fits(w) == WordAt(s, i, EpisodeWords[w])
                     /\ DigitAt(s, SkipSpaces(s, i + Len(EpisodeWords[w])))
        ws == {w \in 1..Len(EpisodeWords) : Fits(w)}
    IN  IF ws # {}
        THEN LET w == CHOOSE x \in ws : \A y \in ws : x <= y
                 q == SkipSpaces(s, i + Len(EpisodeWords[w]))
                 m == DigitRun(s, q)
             IN  Matched(i, q + m, <<Slice(s, q, q + m)>>)
        ELSE NoMatch

PatternAt(p, s, i) ==
    CASE p = 1 -> Pattern1At(s, i)
      [] p = 2 -> Pattern2At(s, i)
      [] p = 3 -> Pattern3At(s, i)
      [] p = 4 -> Pattern4At(s, i)
      [] p = 5 -> Pattern5At(s, i)

\* pattern.search(s): the match at the leftmost position that has one
RECURSIVE SearchFrom(_, _, _)
SearchFrom(p, s, i) ==
    IF i > Len(s) THEN NoMatch
    ELSE LET m == PatternAt(p, s, i)
         IN  IF m.ok THEN m ELSE SearchFrom(p, s, i + 1)

Search(p, s) == SearchFrom(p, s, 1)

\* match.group(0)
Group0(s, m) == Slice(s, m.start, m.end)

\* the bare dash-number rule tried before the explicit token
patterns_DashFirst == <<4, 2, 3, 1, 5>>

\* the order in which rename_show_files tries its patterns
patterns == <<1, 2, 3, 4, 5>>

\* the for/break loop over the patterns, from the n-th entry of the list
\* on: the loop variables pattern and match when the loop ends
RECURSIVE TryPatterns(_, _, _)
TryPatterns(ps, s, n) ==
    LET m == Search(ps[n], s)
    IN  IF m.ok \/ n = Len(ps) THEN [pattern |-> ps[n], match |-> m]
        ELSE TryPatterns(ps, s, n + 1)

\* the season of a match with two groups taken from default_season
SeasonEpisode_DefaultSeason(s, m, default_season) ==
    IF Len(m.groups) = 1 /\ \E i \in 1..Len(Group0(s, m)) :
                               UpperChar(Group0(s, m)[i]) = "E"
    THEN Upper(m.groups[1])
    ELSE IF Len(m.groups) = 2
    THEN <<"S">> \o Format02d(default_season)
           \o <<"E">> \o Format02d(ToInt(m.groups[2]))
    ELSE <<"S">> \o Format02d(default_season)
           \o <<"E">> \o Format02d(ToInt(m.groups[1]))

\* the body of `if match:`: the season_episode string built from the match
SeasonEpisode(s, m, default_season) ==
    IF Len(m.groups) = 1 /\ \E i \in 1..Len(Group0(s, m)) :
                               UpperChar(Group0(s, m)[i]) = "E"
    THEN Upper(m.groups[1])
    ELSE IF Len(m.groups) = 2
    THEN <<"S">> \o Format02d(ToInt(m.groups[1]))
           \o <<"E">> \o Format02d(ToInt(m.groups[2]))
    ELSE <<"S">> \o Format02d(default_season)
           \o <<"E">> \o Format02d(ToInt(m.groups[1]))

\* os.path.splitext(file)[1]: from the last dot on, unless only dots
\* precede it
Extension(s) ==
    LET dots == {i \in 1..Len(s) : s[i] = "."}
    IN  IF dots = {} THEN <<>>
        ELSE LET d == CHOOSE i \in dots : \A j \in dots : j <= i
             IN  IF \E j \in 1..(d - 1) : s[j] # "."
                 THEN SubSeq(s, d, Len(s))
                 ELSE <<>>

\* f"{show_name} {season_episode}{extension}"
NewFilename(show_name, season_episode, extension) ==
    show_name \o <<" ">> \o season_episode \o extension

-----------------------------------------------------------------------------
(* The file system and the run of rename_show_files                        *)

\* a path is a directory and a file name; a file is a path with its content
Path(d, n) == [dir |-> d, name |-> n]

PathOf(e) == Path(e.dir, e.name)

Exists(fsys, path) == \E e \in fsys : PathOf(e) = path

\* os.rename(old_path, new_path): the entry moves to new_path and replaces
\* whatever file was there
os_rename(fsys, old_path, new_path) ==
    LET src == CHOOSE e \in fsys : PathOf(e) = old_path
    IN  {e \in fsys : PathOf(e) # old_path /\ PathOf(e) # new_path}
          \cup {[dir |-> new_path.dir, name |-> new_path.name, id |-> src.id]}

\* the test of the extension made after the pattern loop, for the files
\* without a match only
FileOutcome_MatchFirst(extension, season_episode, old_path, new_path, raised) ==
    IF season_episode = <<>>
    THEN IF extension = <<>> THEN "NoExtension" ELSE "NoMatch"
    ELSE IF new_path = old_path THEN "AlreadyNamed"
    ELSE IF raised THEN "Errored"
    ELSE "Renamed"

\* the five ways the loop body ends for one file; raised: os.rename raised
FileOutcome(extension, season_episode, old_path, new_path, raised) ==
    IF extension = <<>> THEN "NoExtension"
    ELSE IF season_episode = <<>> THEN "NoMatch"
    ELSE IF new_path = old_path THEN "AlreadyNamed"
    ELSE IF raised THEN "Errored"
    ELSE "Renamed"

\* the rename without the test of dry_run
FsAfter_IgnoresDryRun(fsys, old_path, new_path, out, dry) ==
    IF out = "Renamed" THEN os_rename(fsys, old_path, new_path)
    ELSE fsys

\* os.rename is reached only on the non-dry branch of a planned rename
FsAfter(fsys, old_path, new_path, out, dry) ==
    IF out = "Renamed" /\ ~dry THEN os_rename(fsys, old_path, new_path)
    ELSE fsys

\* renamed_count += 1 on the rename branch only
CountRenamed_AppliedOnly(n, out, dry) ==
    IF out = "Renamed" /\ ~dry THEN n + 1 ELSE n

\* renamed_count += 1 follows both the dry-run notice and the rename
CountRenamed(n, out, dry) == IF out = "Renamed" THEN n + 1 ELSE n

\* skipped_count += 1 in the except clause as well
CountSkipped_AlsoOnError(n, out) ==
    IF out \in {"NoExtension", "NoMatch", "AlreadyNamed", "Errored"}
    THEN n + 1 ELSE n

\* skipped_count += 1 on the three skip branches
CountSkipped(n, out) ==
    IF out \in {"NoExtension", "NoMatch", "AlreadyNamed"} THEN n + 1 ELSE n

\* error_count += 1 on the no-match branch as well
CountErrors_AlsoNoMatch(n, out) ==
    IF out \in {"Errored", "NoMatch"} THEN n + 1 ELSE n

\* no error_count += 1 in the per-file except clause
CountErrors_Dropped(n, out) == n

\* error_count += 1 in the per-file except clause
CountErrors(n, out) == IF out = "Errored" THEN n + 1 ELSE n

\* all orders in which a directory listing can come back
Orders(S) ==
    {q \in [1..Cardinality(S) -> S] : \A i, j \in 1..Cardinality(S) :
                                         i # j => q[i] # q[j]}

-----------------------------------------------------------------------------
(* Inputs: show titles, file names and trees                               *)

\* os.walk is top-down: the root folder, then its season folder
Folders == <<"/show", "/show/Season 02">>

\* the directories that exist: those of the walk and the parent of the root
Directories == {"/", "/show", "/show/Season 02"}

\* the last component of a directory
DirName(d) ==
    CASE d = "/show" -> <<"s","h","o","w">>
      [] d = "/show/Season 02" -> <<"S","e","a","s","o","n"," ","0","2">>
      [] OTHER -> <<>>

\* the directory `..` leads to; "missing" is no directory at all
Parent(d) ==
    CASE d = "/show/Season 02" -> "/show"
      [] d = "/show" -> "/"
      [] d = "/" -> "/"
      [] OTHER -> "missing"

\* the directory a component leads to from d
Child(d, c) ==
    IF c = <<>> \/ c = <<".">> THEN d
    ELSE IF c = <<".", ".">> THEN Parent(d)
    ELSE IF \E f \in Directories : f # d /\ Parent(f) = d /\ DirName(f) = c
    THEN CHOOSE f \in Directories : f # d /\ Parent(f) = d /\ DirName(f) = c
    ELSE "missing"

\* the file a relative path names from directory d: every component before
\* the last slash is a directory to go through
RECURSIVE Lookup(_, _)
Lookup(d, s) ==
    LET slashes == {i \in 1..Len(s) : s[i] = "/"}
    IN  IF slashes = {} THEN [dir |-> d, name |-> s]
        ELSE LET k == CHOOSE i \in slashes : \A j \in slashes : i <= j
             IN  Lookup(Child(d, SubSeq(s, 1, k - 1)),
                        SubSeq(s, k + 1, Len(s)))

\* the file that os.path.join(root, name) names when os.rename takes it as
\* its target: a name that starts with a slash makes os.path.join drop root
Resolve(d, name) ==
    IF name # <<>> /\ name[1] = "/" THEN Lookup("/", Tail(name))
    ELSE Lookup(d, name)

\* show titles
Title_Show == <<"S","h","o","w">>
Title_Danmachi == <<"D","a","n","m","a","c","h","i">>
Title_PokemonAdventure ==
    <<"P","o","k","e","m","o","n"," ","A","d","v","e","n","t","u","r","e">>
Title_JujutsuKaisen ==
    <<"J","u","j","u","t","s","u"," ","K","a","i","s","e","n">>
Title_S1E1 == <<"S","1","E","1">>
Title_Up == <<".",".","/","S","h","o","w">>
Title_Sub == <<"S","e","a","s","o","n"," ","0","2","/","S","h","o","w">>

\* the file names of the module docstring and of the specification's scenarios
File_Pokemon ==
    <<"P","o","k","e","m","o","n"," ","(","2","0","1","2",")"," ","-"," ",
      "S","0","2","E","0","8",".","m","k","v">>
File_DanmachiS1 ==
    <<"D","a","n","m","a","c","h","i"," ","S","1"," ","-"," ","1","2",".",
      "m","k","v">>
File_Danmachi12 ==
    <<"D","a","n","m","a","c","h","i"," ","-"," ","1","2",".","m","k","v">>
File_Jujutsu ==
    <<"J","u","j","u","t","s","u"," ","K","a","i","s","e","n"," ","(","2",
      "0","2","3",")"," ","-"," ","0","8"," ","-"," ","T","h","e"," ","S",
      "h","i","b","u","y","a"," ","I","n","c","i","d","e","n","t",".","m",
      "k","v">>
File_Priority ==
    <<"S","h","o","w"," ","S","0","1","E","0","8"," ","-"," ","9","9"," ",
      "-",".","m","k","v">>

\* short file names for the trees
File_A == <<"a"," ","S","0","1","E","0","2",".","m","k","v">>
File_B == <<"b"," ","S","0","1","E","0","2",".","m","k","v">>
File_Named == <<"S","h","o","w"," ","S","0","1","E","0","2",".","m","k","v">>
File_Readme == <<"R","E","A","D","M","E">>
File_Notes == <<"n","o","t","e","s",".","t","x","t">>

\* fragments that file names are put together from
Fragments ==
    {<<"S">>,
     <<"e">>,
     <<"p">>,
     <<"1">>,
     <<"2">>,
     <<"-">>,
     <<" ">>,
     <<"x">>,
     <<"_">>,
     <<"0">>,
     <<"E","p"," ","5">>,
     <<"S","0","1","E","0","8">>,
     <<"S","1","E","8">>,
     <<" ","-"," ","9","9"," ","-">>,
     <<"(","2","0","2","3",")"," ","-"," ","0","8"," ","-">>,
     <<"S","1"," ","-"," ","1","2">>,
     <<"E","p","i","s","o","d","e"," ","1","2">>,
     <<"S","0","1","E","1","2","3">>,
     <<"-"," ","1","2","3"," ","-">>}
Ext_mkv == <<".","m","k","v">>

\* bounds of the model
MaxFrags == 2
MaxFiles == 2
MaxRuns == 2

RECURSIVE Concat(_)
Concat(q) == IF q = <<>> THEN <<>> ELSE Head(q) \o Concat(Tail(q))

\* a file name ends with .mkv or has no extension at all
Extensions == {Ext_mkv, <<>>}

\* file names of up to MaxFrags fragments, with and without an extension
Names ==
    {Concat(q) \o x :
        q \in UNION {[1..n -> Fragments] : n \in 1..MaxFrags},
        x \in Extensions}

\* one file, its show title and default season
Scenarios ==
    {<<File_Pokemon, Title_PokemonAdventure, 7>>,
     <<File_DanmachiS1, Title_Danmachi, 1>>,
     <<File_Danmachi12, Title_Danmachi, 1>>,
     <<File_Jujutsu, Title_JujutsuKaisen, 2>>,
     <<File_Priority, Title_Show, 1>>,
     <<File_Pokemon, Title_PokemonAdventure, 1>>,
     <<File_DanmachiS1, Title_Danmachi, 5>>,
     <<File_A, Title_Up, 1>>,
     <<File_A, Title_Sub, 1>>}

\* the file names a tree is drawn from
Catalogue ==
    {File_A, File_B, File_Named, File_Readme, File_Notes}

\* show title and default season of the runs over trees
Configs == {<<Title_Show, 1>>, <<Title_S1E1, 1>>}

\* the file names the season folder of a tree is drawn from
SeasonCatalogue == {File_A, File_Notes}

AllPaths ==
    {Path(Folders[1], n) : n \in Catalogue}
        \cup {Path(Folders[2], n) : n \in SeasonCatalogue}

\* a file's content is identified by the path it had at the start
Tree(paths) == {[dir |-> p.dir, name |-> p.name, id |-> p] : p \in paths}

Trees == {Tree(ps) : ps \in {x \in SUBSET AllPaths : Cardinality(x) <= MaxFiles}}

\* what FOLDER_PATH is on disk
FolderStates == {"ok", "missing", "not_dir", "unreadable"}

\* the three tests of main() that end in sys.exit(1), without the test of
\* os.access
PathError_NoReadCheck(folder) ==
    \/ folder = "missing"
    \/ folder = "not_dir"

\* the three tests of main() that end in sys.exit(1): os.path.exists,
\* os.path.isdir and os.access(FOLDER_PATH, os.R_OK)
PathError(folder) ==
    \/ folder = "missing"
    \/ folder = "not_dir"
    \/ folder = "unreadable"


VARIABLES
    fs,              \* the files on disk: records [dir, name, id]
    show_name,       \* SHOW_TITLE
    default_season,  \* DEFAULT_SEASON
    dry_run,         \* DRY_RUN of the current run
    pc,              \* "idle": no run in progress; "walk": inside os.walk
    dirs,            \* directories os.walk has still to yield
    root,            \* the directory being processed
    files,           \* the files of root still to process
    file,            \* the loop variable: the file processed last
    extension,
    pattern,         \* the loop variable of the pattern loop
    match,
    season_episode,  \* <<>> stands for None
    new_filename,
    renamed_count,
    skipped_count,
    error_count,
    outcome,         \* how the loop body ended for `file`
    fs_start,        \* the file system when the current run started
    prev,            \* the summaries of the finished runs, oldest first
    runs_left,       \* how many more times the script is started
    folder_path,     \* what FOLDER_PATH is on disk
    last_exit,       \* how the last start of the script ended
    processed        \* passes of the loop body in the current run

vars == <<fs, show_name, default_season, dry_run, pc, dirs, root, files, file,
          extension, pattern, match, season_episode, new_filename,
          renamed_count, skipped_count, error_count, outcome, fs_start,
          prev, runs_left, folder_path, last_exit, processed>>

config == <<show_name, default_season>>
locals == <<file, extension, pattern, match, season_episode, new_filename>>
counters == <<renamed_count, skipped_count, error_count>>

\* main() tests the root folder and exits on a path error; otherwise it
\* hands the configuration to rename_show_files, which sets its counters to
\* zero and starts the walk at the root folder
Main ==
    /\ pc = "idle"
    /\ runs_left > 0
    /\ IF PathError(folder_path)
       THEN /\ last_exit' = "path_error"
            /\ runs_left' = runs_left - 1
            /\ UNCHANGED <<dry_run, pc, dirs, root, files, counters, outcome,
                           fs_start, processed>>
       ELSE /\ \E dry \in BOOLEAN : dry_run' = dry
            /\ pc' = "walk"
            /\ dirs' = Folders
            /\ root' = ""
            /\ files' = <<>>
            /\ renamed_count' = 0
            /\ skipped_count' = 0
            /\ error_count' = 0
            /\ outcome' = "none"
            /\ fs_start' = fs
            /\ last_exit' = "none"
            /\ processed' = 0
            /\ UNCHANGED runs_left
    /\ UNCHANGED <<fs, config, locals, prev, folder_path>>

\* os.walk yields the next directory with the list of its files
WalkDir ==
    /\ pc = "walk"
    /\ files = <<>>
    /\ dirs # <<>>
    /\ root' = Head(dirs)
    /\ dirs' = Tail(dirs)
    /\ files' \in Orders({e.name : e \in {x \in fs : x.dir = Head(dirs)}})
    /\ UNCHANGED <<fs, config, dry_run, pc, locals, counters, outcome,
                   fs_start, prev, runs_left, folder_path, last_exit,
                   processed>>

\* one pass of the loop body `for file in files`
ProcessFile ==
    /\ pc = "walk"
    /\ files # <<>>
    /\ \E ext \in {Extension(Head(files))},
          t \in {TryPatterns(patterns, Head(files), 1)} :
        \E se \in {IF t.match.ok
                   THEN SeasonEpisode(Head(files), t.match, default_season)
                   ELSE <<>>} :
        \E nf \in {NewFilename(show_name, se, ext)} :
        \E new_path \in {Resolve(root, nf)}, fails \in BOOLEAN :
        \E out \in {FileOutcome(ext, se, Path(root, Head(files)),
                                Path(root, nf),
                                ~dry_run /\ (\/ fails
                                             \/ ~Exists(fs, Path(root,
                                                               Head(files)))
                                             \/ new_path.dir = "missing"))} :
            /\ file' = Head(files)
            /\ extension' = ext
            /\ IF out = "NoExtension"
               THEN UNCHANGED <<pattern, match, season_episode, new_filename>>
               ELSE /\ pattern' = t.pattern
                    /\ match' = t.match
                    /\ season_episode' = se
                    /\ new_filename' = IF out = "NoMatch" THEN new_filename
                                       ELSE nf
            /\ fs' = FsAfter(fs, Path(root, Head(files)), new_path, out,
                             dry_run)
            /\ renamed_count' = CountRenamed(renamed_count, out, dry_run)
            /\ skipped_count' = CountSkipped(skipped_count, out)
            /\ error_count' = CountErrors(error_count, out)
            /\ outcome' = out
    /\ files' = Tail(files)
    /\ processed' = processed + 1
    /\ UNCHANGED <<config, dry_run, pc, dirs, root, fs_start, prev, runs_left,
                   folder_path, last_exit>>

\* an exception leaves the per-file handler while Head(files) is processed
\* (the handler's own report raises): the handler around the walk prints
\* "Critical Error" and ends the process with status 1, before the summary
WalkRaises ==
    /\ pc = "walk"
    /\ files # <<>>
    /\ pc' = "idle"
    /\ last_exit' = "critical"
    /\ runs_left' = runs_left - 1
    /\ dirs' = <<>>
    /\ files' = <<>>
    /\ root' = ""
    /\ file' = <<>>
    /\ extension' = <<>>
    /\ pattern' = 0
    /\ match' = NoMatch
    /\ season_episode' = <<>>
    /\ new_filename' = <<>>
    /\ renamed_count' = 0
    /\ skipped_count' = 0
    /\ error_count' = 0
    /\ outcome' = "none"
    /\ processed' = 0
    /\ fs_start' = fs
    /\ UNCHANGED <<fs, config, dry_run, prev, folder_path>>

\* the walk is over: the summary block is printed and the function returns,
\* which ends the life of its local variables
Summary ==
    /\ pc = "walk"
    /\ files = <<>>
    /\ dirs = <<>>
    /\ pc' = "idle"
    /\ prev' = Append(prev, [dry_run |-> dry_run,
                             renamed |-> renamed_count,
                             skipped |-> skipped_count,
                             errors |-> error_count,
                             processed |-> processed,
                             fs_before |-> fs_start,
                             fs_after |-> fs])
    /\ runs_left' = runs_left - 1
    /\ root' = ""
    /\ file' = <<>>
    /\ extension' = <<>>
    /\ pattern' = 0
    /\ match' = NoMatch
    /\ season_episode' = <<>>
    /\ new_filename' = <<>>
    /\ renamed_count' = 0
    /\ skipped_count' = 0
    /\ error_count' = 0
    /\ outcome' = "none"
    /\ fs_start' = fs
    /\ last_exit' = "summary"
    /\ processed' = 0
    /\ UNCHANGED <<fs, config, dry_run, dirs, files, folder_path>>

Next == Main \/ WalkDir \/ ProcessFile \/ WalkRaises \/ Summary

\* the state before the script is first started
Start(tree, title, season, runs, folder) ==
    /\ fs = tree
    /\ show_name = title
    /\ default_season = season
    /\ dry_run = TRUE
    /\ pc = "idle"
    /\ dirs = <<>>
    /\ root = ""
    /\ files = <<>>
    /\ file = <<>>
    /\ extension = <<>>
    /\ pattern = 0
    /\ match = NoMatch
    /\ season_episode = <<>>
    /\ new_filename = <<>>
    /\ renamed_count = 0
    /\ skipped_count = 0
    /\ error_count = 0
    /\ outcome = "none"
    /\ fs_start = tree
    /\ prev = <<>>
    /\ runs_left = runs
    /\ folder_path = folder
    /\ last_exit = "none"
    /\ processed = 0

\* runs over a tree of up to MaxFiles files; nothing is under a root folder
\* that is missing or is not a directory
Init ==
    \E t \in Trees, c \in Configs, f \in FolderStates :
        /\ f \in {"missing", "not_dir"} => t = {}
        /\ Start(t, c[1], c[2], MaxRuns, f)

Spec == Init /\ [][Next]_vars

\* one run over a single file
InitNames ==
    \E c \in {<<n, Title_Show, 3>> : n \in Names} \cup Scenarios :
        Start(Tree({Path(Folders[1], c[1])}), c[2], c[3], 1, "ok")

SpecNames == InitNames /\ [][Next]_vars

-----------------------------------------------------------------------------
(* Properties                                                              *)

\* s[i ..] starts with a token S<a digits>E<b digits>, in any letter case
TokenAt(s, i, a, b) ==
    /\ i + a + b + 1 <= Len(s)
    /\ s[i] \in {"S", "s"}
    /\ \A k \in 1..a : IsDigit(s[i + k])
    /\ s[i + a + 1] \in {"E", "e"}
    /\ \A k \in 1..b : IsDigit(s[i + a + 1 + k])

\* the identity a token stands for: S, its season digits, E, its episode
\* digits
TokenIdentity(s, i, a, b) ==
    <<"S">> \o SubSeq(s, i + 1, i + a) \o <<"E">>
            \o SubSeq(s, i + a + 2, i + a + 1 + b)

HasToken(s) ==
    \E i \in 1..Len(s), a \in 1..2, b \in 1..2 : TokenAt(s, i, a, b)

\* the loop body went through the pattern loop for `file`
Extracted == outcome \in {"NoMatch", "AlreadyNamed", "Renamed", "Errored"}

Identity_S01E08 == <<"S","0","1","E","0","8">>

\* C1: a file name that contains an S<1-2 digits>E<1-2 digits> token is
\* resolved by rule 1 and its identity is the S, E and digits of a token of
\* the name, whatever else the name contains; 'Show S01E08 - 99 -.mkv' gives
\* S01E08.
C1_RulePriority ==
    (Extracted /\ HasToken(file)) =>
        /\ pattern = 1
        /\ \E i \in 1..Len(file), a \in 1..2, b \in 1..2 :
              /\ TokenAt(file, i, a, b)
              /\ season_episode = TokenIdentity(file, i, a, b)
        /\ (file = File_Priority => season_episode = Identity_S01E08)

\* C1 witness: the file with both a token and a bare dash-number was
\* processed and resolved by rule 1
C1_Witness ==
    /\ outcome = "Renamed"
    /\ file = File_Priority
    /\ pattern = 1
    /\ Search(4, file).ok

File_DanmachiS01E12 ==
    <<"D","a","n","m","a","c","h","i"," ","S","0","1","E","1","2",
      ".","m","k","v">>

\* C2: 'Danmachi - 12.mkv' with show name 'Danmachi' and default season 1
\* is renamed to 'Danmachi S01E12.mkv'.
C2_Scenario3 ==
    (/\ file = File_Danmachi12
     /\ show_name = Title_Danmachi
     /\ default_season = 1
     /\ outcome \notin {"none", "Errored"}) =>
        /\ outcome = "Renamed"
        /\ new_filename = File_DanmachiS01E12

\* C3: a file matched only by rule 5 gets episode = the captured number and
\* season = default_season, both rendered with two digits, in
\* '{show_name} SxxExx{extension}'.
C3_Rule5 ==
    (Extracted /\ match.ok /\ pattern = 5) =>
        /\ season_episode = <<"S">> \o Format02d(default_season) \o <<"E">>
                              \o Format02d(ToInt(match.groups[1]))
        /\ new_filename = show_name \o <<" ">> \o season_episode \o extension

\* C4: a second run with dry_run=False right after a run with dry_run=False
\* renames nothing and leaves the file system as it found it (no rename
\* having failed in either run).
C4_Idempotent ==
    \A i \in 1..(Len(prev) - 1) :
        (/\ ~prev[i].dry_run /\ prev[i].errors = 0
         /\ ~prev[i + 1].dry_run /\ prev[i + 1].errors = 0) =>
            /\ prev[i + 1].renamed = 0
            /\ prev[i + 1].fs_after = prev[i + 1].fs_before

Contents(fsys) == {e.id : e \in fsys}

\* C5: no rename lands on the path of another file: every content present
\* when the run started is still present.
C5_NoDataLoss ==
    /\ Contents(fs_start) \subseteq Contents(fs)
    /\ \A i \in 1..Len(prev) :
          Contents(prev[i].fs_before) \subseteq Contents(prev[i].fs_after)

\* s is a string of at least two digits
TwoOrMoreDigits(s) == Len(s) >= 2 /\ \A k \in 1..Len(s) : IsDigit(s[k])

\* s is S<season>E<episode> with at least two digits each
Rendered(s) ==
    \E k \in 1..Len(s) :
        /\ s[1] = "S"
        /\ s[k] = "E"
        /\ TwoOrMoreDigits(SubSeq(s, 2, k - 1))
        /\ TwoOrMoreDigits(SubSeq(s, k + 1, Len(s)))

\* C6: every name a rename produces is '{show_name} S<season>E<episode>
\* {extension}' with season and episode of at least two digits each.
C6_Rendering ==
    outcome = "Renamed" =>
        \E id \in {season_episode} :
            /\ new_filename = show_name \o <<" ">> \o id \o extension
            /\ Rendered(id)

\* s[i ..] is S<a digits>E<3 digits> and no digit follows
Token3At(s, i, a) ==
    /\ TokenAt(s, i, a, 2)
    /\ i + a + 4 <= Len(s)
    /\ IsDigit(s[i + a + 4])
    /\ ~(i + a + 5 <= Len(s) /\ IsDigit(s[i + a + 5]))

\* s[i ..] is a bare dash-number of three digits, as in '- 123 -'
Dash3At(s, i) ==
    /\ i + 6 <= Len(s)
    /\ IsSep(s[i]) /\ s[i + 1] = " "
    /\ \A k \in 2..4 : IsDigit(s[i + k])
    /\ s[i + 5] = " " /\ IsSep(s[i + 6])

\* C7: a file name with a token whose episode number has three digits gets
\* an identity that carries all three digits, and so does a name whose only
\* number is a bare dash-number of three digits.
C7_NoTruncation ==
    /\ \A i \in 1..Len(file), a \in 1..2 :
          (Extracted /\ Token3At(file, i, a)) =>
              \E j \in 1..Len(file), c \in 1..2 :
                  /\ Token3At(file, j, c)
                  /\ season_episode =
                       TokenIdentity(file, j, c, 2) \o <<file[j + c + 4]>>
    /\ \A i \in 1..Len(file) :
          (/\ Extracted /\ Dash3At(file, i)
           /\ \A k \in 1..Len(file) : ~IsDigit(file[k]) \/ k \in (i + 2)..(i + 4)) =>
              season_episode = <<"S">> \o Format02d(default_season)
                                 \o <<"E">> \o SubSeq(file, i + 2, i + 4)

\* C8: a run with dry_run=True leaves every path and its content as they
\* were when the run started.
C8_DryRunFrame ==
    /\ (pc = "walk" /\ dry_run) => fs = fs_start
    /\ \A i \in 1..Len(prev) :
          prev[i].dry_run => prev[i].fs_after = prev[i].fs_before

\* C8 witness: a dry run that planned a rename has finished
C8_Witness ==
    \E i \in 1..Len(prev) : prev[i].dry_run /\ prev[i].renamed > 0

LoopPass == pc = "walk" /\ files # <<>> /\ processed' = processed + 1

\* C11: every run that got past the validation of the root folder and has
\* ended, ended with the summary block.
C11_SummaryAlways ==
    (pc = "idle" /\ last_exit \notin {"none", "path_error"}) =>
        last_exit = "summary"

C14_InPlace == \A e \in fs : e.dir = e.id.dir

File_PokemonAdventureS02E08 ==
    <<"P","o","k","e","m","o","n"," ","A","d","v","e","n","t","u","r","e",
      " ","S","0","2","E","0","8",".","m","k","v">>
File_JujutsuKaisenS02E08 ==
    <<"J","u","j","u","t","s","u"," ","K","a","i","s","e","n"," ","S","0",
      "2","E","0","8",".","m","k","v">>

\* the file of the single-file run was given the name `name` in its
\* directory, or the run was a dry run or os.rename raised and it was not
Produces(name) ==
    /\ new_filename = name
    /\ outcome \in {"Renamed", "Errored"}
    /\ (outcome = "Renamed" /\ ~dry_run) =>
          fs = {[dir |-> e.dir, name |-> name, id |-> e.id] : e \in fs_start}
    /\ (outcome = "Errored" \/ dry_run) => fs = fs_start

\* C15: 'Pokemon (2012) - S02E08.mkv' with show name 'Pokemon Adventure'
\* becomes 'Pokemon Adventure S02E08.mkv' under every default season;
\* 'Danmachi S1 - 12.mkv' with show name 'Danmachi' becomes
\* 'Danmachi S01E12.mkv' under every default season; 'Jujutsu Kaisen (2023)
\* - 08 - The Shibuya Incident.mkv' with show name 'Jujutsu Kaisen' and
\* default season 2 becomes 'Jujutsu Kaisen S02E08.mkv'.
C15_Scenarios ==
    /\ (file = File_Pokemon /\ show_name = Title_PokemonAdventure) =>
          Produces(File_PokemonAdventureS02E08)
    /\ (file = File_DanmachiS1 /\ show_name = Title_Danmachi) =>
          Produces(File_DanmachiS01E12)
    /\ (/\ file = File_Jujutsu
        /\ show_name = Title_JujutsuKaisen
        /\ default_season = 2) =>
          Produces(File_JujutsuKaisenS02E08)

\* C15 witness: 'Danmachi S1 - 12.mkv' was renamed on disk in a run whose
\* default season is 5
C15_Witness ==
    /\ file = File_DanmachiS1
    /\ default_season = 5
    /\ outcome = "Renamed"
    /\ ~dry_run
    /\ \E e \in fs : e.name = File_DanmachiS01E12

\* C16: with a root folder that is missing, is not a directory or is not
\* readable, no start of the script enters the walk: no file is inspected,
\* no counter is touched, no summary is printed and every file is where it
\* was.
C16_PathErrorFatal ==
    folder_path \in {"missing", "not_dir", "unreadable"} =>
        /\ pc = "idle"
        /\ last_exit \in {"none", "path_error"}
        /\ prev = <<>>
        /\ processed = 0
        /\ file = <<>>
        /\ outcome = "none"
        /\ fs = fs_start
        /\ \A e \in fs : PathOf(e) = e.id

\* C16 witness: every start of the script over an unreadable root folder
\* that holds files has ended on the path error
C16_Witness ==
    /\ folder_path = "unreadable"
    /\ last_exit = "path_error"
    /\ runs_left = 0
    /\ fs # {}

\* the five ways the loop body ends
Outcomes == {"NoExtension", "NoMatch", "AlreadyNamed", "Renamed", "Errored"}

\* the counter an outcome adds one to
CounterOf(out) ==
    IF out = "Renamed" THEN "renamed"
    ELSE IF out = "Errored" THEN "errors"
    ELSE "skipped"

RunState(fsys) == [fs |-> fsys, renamed |-> 0, skipped |-> 0, errors |-> 0]

\* one pass of the loop body with dry_run=False over the file `name` of
\* directory d, os.rename raising only when its source or the directory of
\* its target is missing
FileStep(st, d, name) ==
    LET ext == Extension(name)
        t == TryPatterns(patterns, name, 1)
        se == IF t.match.ok
              THEN SeasonEpisode(name, t.match, default_season)
              ELSE <<>>
        nf == NewFilename(show_name, se, ext)
        new_path == Resolve(d, nf)
        out == FileOutcome(ext, se, Path(d, name), Path(d, nf),
                           \/ ~Exists(st.fs, Path(d, name))
                           \/ new_path.dir = "missing")
    IN  [fs |-> FsAfter(st.fs, Path(d, name), new_path, out, FALSE),
         renamed |-> CountRenamed(st.renamed, out, FALSE),
         skipped |-> CountSkipped(st.skipped, out),
         errors |-> CountErrors(st.errors, out)]

\* the loop over the files of directory d in the order q
RECURSIVE RunDir(_, _, _)
RunDir(st, d, q) ==
    IF q = <<>> THEN st
    ELSE RunDir(FileStep(st, d, Head(q)), d, Tail(q))

\* the states in which the walk over the directories ds can end, one for
\* every order in which the listings can come back
RECURSIVE RunFolders(_, _)
RunFolders(st, ds) ==
    IF ds = <<>> THEN {st}
    ELSE UNION {RunFolders(RunDir(st, Head(ds), q), Tail(ds)) :
                  q \in Orders({e.name : e \in {x \in st.fs :
                                                  x.dir = Head(ds)}})}

\* the paths of a file system
Paths(fsys) == {PathOf(e) : e \in fsys}

\* C18: when a run with dry_run=False has come to the end of its walk with
\* no error, every other order of the listings in which no rename fails ends
\* with the same set of paths and the same three counters.
C18_OrderIndependent ==
    (pc = "walk" /\ files = <<>> /\ dirs = <<>> /\ ~dry_run
        /\ error_count = 0) =>
        \A r \in RunFolders(RunState(fs_start), Folders) :
            r.errors = 0 =>
                /\ Paths(r.fs) = Paths(fs)
                /\ r.renamed = renamed_count
                /\ r.skipped = skipped_count

====
